---- MODULE Spec2Model ----
(***************************************************************************)
(* A model of icecc-rs: the Rust wrapper (src/src/lib.rs) around the       *)
(* native icecream channel, and the way examples/monitor.rs drives it.     *)
(*                                                                         *)
(* Two layers are kept apart.  The operators named after the Rust methods  *)
(* (read_a_bit, eof, has_message, recv, send, bulk_transfer,               *)
(* from_raw_ptr_variant, ...) are translated from lib.rs.  The operators   *)
(* named after the sys:: functions they call (msg_channel_read_a_bit,      *)
(* msg_channel_get_msg, ...) stand for the native library, whose code is   *)
(* not part of lib.rs; they follow the channel contract of spec.md         *)
(* sections 4.1-4.3, 6 and 7.                                              *)
(***************************************************************************)
EXTENDS Integers, Sequences, FiniteSets, TLC

VARIABLES
    mc,        \* the native MsgChannel behind MessageChannel.mc
    sock,      \* the connected socket: bytes in flight, peer state
    sent,      \* history: the frames the peer has written, in order
    peerFrame, \* the frame, besides MonitorStats, that this peer writes
    lastOp,    \* the last call made on the MessageChannel and its result
    eofSeen,   \* history: eof() has returned true
    panicked,  \* the calling thread has panicked
    mon,       \* examples/monitor.rs main: where its receive loop stands
    sd,        \* the native DiscoverSched, its network and its polling caller
    rc,        \* the Rc handles of a native object and the object's release
    job,       \* the native CompileJob behind CompileJob.cj
    rt         \* a message on its way from a sender's setter to a getter

chanVars == << mc, sock, sent, peerFrame, lastOp, eofSeen, panicked >>
otherVars == << mon, sd, rc, job, rt >>
vars == << chanVars, otherVars >>

\* The value of a variable whose component takes no part in a run.
Absent == "absent"

(***************************************************************************)
(* Bounds of the model.                                                    *)
(***************************************************************************)
MaxFrames == 2     \* frames the peer writes in one run
MaxChunk == 2      \* bytes one read() may return at most
MaxSends == 1      \* frames the channel's owner writes in one run
MaxStr == 2        \* bytes of a string field's value
MaxClock == 3      \* time units the clock runs for
MaxProbes == 2     \* broadcast probes a discoverer sends

(***************************************************************************)
(* Bytes, integers and strings on the wire (spec.md 4.2, 6).               *)
(***************************************************************************)
Min(a, b) == IF a < b THEN a ELSE b
Max(a, b) == IF a > b THEN a ELSE b
Take(s, k) == SubSeq(s, 1, Min(k, Len(s)))
Drop(s, k) == SubSeq(s, Min(k, Len(s)) + 1, Len(s))

\* A u32 in network byte order.  The model only encodes values below 2^16.
U32(n) == << 0, 0, n \div 256, n % 256 >>
\* The bytes of 0xFFFFFFFF.
U32AllOnes == << 255, 255, 255, 255 >>
\* Decoding: the upper half is looked at on its own, so that no value the
\* model computes leaves the range of the 32-bit integers.
U32HighSet(b) == b[1] # 0 \/ b[2] # 0
U32Low(b) == b[3] * 256 + b[4]

\* "busy" as bytes.
StrBusy == << 98, 117, 115, 121 >>

\* The configured maximum of a frame's declared length (spec.md 4.1).
MaxMsgLen == 16

(***************************************************************************)
(* sys::MsgType, in the order Message::from_raw_ptr lists it.              *)
(***************************************************************************)
MsgTypes == <<
    "M_UNKNOWN", "M_PING", "M_END", "M_TIMEOUT", "M_GET_NATIVE_ENV",
    "M_NATIVE_ENV", "M_GET_CS", "M_USE_CS", "M_COMPILE_FILE", "M_FILE_CHUNK",
    "M_COMPILE_RESULT", "M_JOB_BEGIN", "M_JOB_DONE", "M_JOB_LOCAL_BEGIN",
    "M_JOB_LOCAL_DONE", "M_LOGIN", "M_CS_CONF", "M_STATS", "M_TRANSFER_ENV",
    "M_GET_INTERNALS", "M_MON_LOGIN", "M_MON_GET_CS", "M_MON_JOB_BEGIN",
    "M_MON_JOB_DONE", "M_MON_LOCAL_JOB_BEGIN", "M_MON_STATS", "M_TEXT",
    "M_STATUS_TEXT", "M_VERIFY_ENV", "M_VERIFY_ENV_RESULT",
    "M_BLACKLIST_HOST_ENV" >>

ReservedTypes == { "M_UNKNOWN", "M_TIMEOUT" }
TypeSet == { MsgTypes[i] : i \in 1..Len(MsgTypes) }

\* The code a type travels under: its place in the enumeration.
TagCode(t) == CHOOSE i \in 1..Len(MsgTypes) : MsgTypes[i] = t
\* The codes the peer may put on the wire: every type's, and 0, which is none.
WireCodes == 0..Len(MsgTypes)

(***************************************************************************)
(* enum Message: its variants, in the order of the declaration.            *)
(***************************************************************************)
MessageVariants == <<
    "Ping", "End", "GetNativeEnv", "NativeEnv", "GetCS", "UseCS",
    "CompileFile", "FileChunk", "CompileResult", "JobBegin", "JobDone",
    "LocalJobBegin", "LocalJobDone", "Login", "ConfCS", "Stats",
    "EnvTransfer", "InternalStatus", "MonitorLogin", "MonitorGetCS",
    "MonitorJobBegin", "MonitorJobDone", "MonitorLocalJobBegin",
    "MonitorStats", "Text", "StatusText", "VerifyEnv", "VerifyEnvResult",
    "BlacklistHostEnv" >>

VariantSet == { MessageVariants[i] : i \in 1..Len(MessageVariants) }

\* What a panicking arm of a match yields in place of a value.
PANIC == "panic!"

\* Message::from_raw_ptr: the variant built for a native message's type.
from_raw_ptr_variant(t) ==
    CASE t = "M_UNKNOWN" -> PANIC
      [] t = "M_PING" -> "Ping"
      [] t = "M_END" -> "End"
      [] t = "M_TIMEOUT" -> PANIC
      [] t = "M_GET_NATIVE_ENV" -> "GetNativeEnv"
      [] t = "M_NATIVE_ENV" -> "NativeEnv"
      [] t = "M_GET_CS" -> "GetCS"
      [] t = "M_USE_CS" -> "UseCS"
      [] t = "M_COMPILE_FILE" -> "CompileFile"
      [] t = "M_FILE_CHUNK" -> "FileChunk"
      [] t = "M_COMPILE_RESULT" -> "CompileResult"
      [] t = "M_JOB_BEGIN" -> "JobBegin"
      [] t = "M_JOB_DONE" -> "JobDone"
      [] t = "M_JOB_LOCAL_BEGIN" -> "LocalJobBegin"
      [] t = "M_JOB_LOCAL_DONE" -> "LocalJobDone"
      [] t = "M_LOGIN" -> "Login"
      [] t = "M_CS_CONF" -> "ConfCS"
      [] t = "M_STATS" -> "Stats"
      [] t = "M_TRANSFER_ENV" -> "EnvTransfer"
      [] t = "M_GET_INTERNALS" -> "InternalStatus"
      [] t = "M_MON_LOGIN" -> "MonitorLogin"
      [] t = "M_MON_GET_CS" -> "MonitorGetCS"
      [] t = "M_MON_JOB_BEGIN" -> "MonitorJobBegin"
      [] t = "M_MON_JOB_DONE" -> "MonitorJobDone"
      [] t = "M_MON_LOCAL_JOB_BEGIN" -> "MonitorLocalJobBegin"
      [] t = "M_MON_STATS" -> "MonitorStats"
      [] t = "M_TEXT" -> "Text"
      [] t = "M_STATUS_TEXT" -> "StatusText"
      [] t = "M_VERIFY_ENV" -> "VerifyEnv"
      [] t = "M_VERIFY_ENV_RESULT" -> "VerifyEnvResult"
      [] t = "M_BLACKLIST_HOST_ENV" -> "BlacklistHostEnv"

(***************************************************************************)
(* The frame codec (spec.md 4.1, 6): [u32 length][u32 type tag][payload],  *)
(* the length not counting itself.                                         *)
(***************************************************************************)
Encode(code, payload) == U32(4 + Len(payload)) \o U32(code) \o payload

\* Faulty variant: the declared length is not checked against the maximum.
DeclaredTooLarge_unchecked(buf) == FALSE

DeclaredTooLarge(buf) ==
    U32HighSet(Take(buf, 4)) \/ U32Low(Take(buf, 4)) > MaxMsgLen

DeclaredLen(buf) == U32Low(Take(buf, 4))

\* What the codec makes of the read buffer: it holds a complete frame, it
\* needs more bytes, or its length prefix is beyond the maximum.
FrameStatus(buf) ==
    IF Len(buf) < 4 THEN "need_more"
    ELSE IF DeclaredTooLarge(buf) THEN "malformed"
    ELSE IF Len(buf) < 4 + DeclaredLen(buf) THEN "need_more"
    ELSE "complete"

HasFrame(buf) == FrameStatus(buf) = "complete"

\* The bytes the channel sets aside for the frame at the head of its buffer.
Reserve(buf) == IF Len(buf) < 4 THEN 0 ELSE 4 + DeclaredLen(buf)

(***************************************************************************)
(* Native messages and their decoding (spec.md 4.2).                       *)
(***************************************************************************)
NoFields == [host_id |-> 0, message |-> << >>]
NULL == [type |-> "NULL", host_id |-> 0, message |-> << >>]
NativeMsg(t, f) == [type |-> t, host_id |-> f.host_id, message |-> f.message]

\* MonStatsMsg: a u32 host id, then a length-prefixed string.
DecodeMonStats(p) ==
    IF Len(p) < 8 \/ U32HighSet(SubSeq(p, 5, 8))
       \/ Len(p) < 8 + U32Low(SubSeq(p, 5, 8))
    THEN [err |-> "MalformedPayload", f |-> NoFields]
    ELSE [err |-> "none",
          f |-> [host_id |-> U32Low(SubSeq(p, 1, 4)),
                 message |-> SubSeq(p, 9, 8 + U32Low(SubSeq(p, 5, 8)))]]

\* The per-type decode routine.  Only the fields lib.rs has accessors for
\* are modelled; the payload of the other types is not looked into.
DecodePayload(t, p) ==
    IF t = "M_MON_STATS" THEN DecodeMonStats(p)
    ELSE [err |-> "none", f |-> NoFields]

\* decode(bytes) of one whole frame.  rejectReserved: whether the native
\* decoder itself refuses the two reserved types or hands them on.
DecodeFrame(frame, rejectReserved) ==
    IF Len(frame) < 8 THEN [err |-> "MalformedPayload", msg |-> NULL]
    ELSE LET tagb == SubSeq(frame, 5, 8)
             code == U32Low(tagb)
             payload == SubSeq(frame, 9, Len(frame))
         IN IF U32HighSet(tagb) \/ code \notin 1..Len(MsgTypes)
            THEN [err |-> "UnknownMessageType", msg |-> NULL]
            ELSE IF rejectReserved /\ MsgTypes[code] \in ReservedTypes
            THEN [err |-> "UnknownMessageType", msg |-> NULL]
            ELSE LET d == DecodePayload(MsgTypes[code], payload)
                 IN IF d.err # "none" THEN [err |-> d.err, msg |-> NULL]
                    ELSE [err |-> "none",
                          msg |-> NativeMsg(MsgTypes[code], d.f)]

(***************************************************************************)
(* The native MsgChannel (spec.md 4.3, 7).                                 *)
(***************************************************************************)
NewChannel ==
    [state |-> "Open", mode |-> "Normal", inbuf |-> << >>, peerEof |-> FALSE,
     err |-> "none", cap |-> 0, got |-> 0, taken |-> 0]

NewSocket ==
    [wire |-> << >>, peerClosed |-> FALSE, out |-> 0]

\* An error closes the channel; what it had buffered is gone.
CloseOnError(c, e) ==
    [c EXCEPT !.state = "Closed", !.err = e, !.inbuf = << >>]

\* The codec looks at the buffer after every change to it.
Settle(c) ==
    IF FrameStatus(c.inbuf) = "malformed"
    THEN CloseOnError(c, "MalformedFrame")
    ELSE [c EXCEPT !.cap = Reserve(c.inbuf)]

\* What a native call hands back: the channel and socket after it, its
\* boolean or message result, and what it did to the socket.
Ret(c, s, retb, ptr, reads, blocked, wb) ==
    [c |-> c, s |-> s, retb |-> retb, ptr |-> ptr, reads |-> reads,
     blocked |-> blocked, wb |-> wb]

\* What the operating system does at a call: the socket fails with an error,
\* or a read returns at most n of the bytes that have arrived.
IoChoices ==
    { [n |-> 1, fail |-> TRUE] } \cup [n : 1..MaxChunk, fail : { FALSE }]

\* One non-blocking read.
ReadOnce(c, s, io) ==
    IF io.fail
    THEN [c |-> CloseOnError(c, "SocketError"), s |-> s, wb |-> FALSE]
    ELSE IF s.wire = << >>
    THEN IF s.peerClosed
         THEN [c |-> [c EXCEPT !.state = "Closed", !.peerEof = TRUE],
               s |-> s, wb |-> FALSE]
         ELSE [c |-> c, s |-> s, wb |-> TRUE]
    ELSE [c |-> Settle([c EXCEPT !.inbuf = @ \o Take(s.wire, io.n),
                                 !.got = @ + Min(io.n, Len(s.wire))]),
          s |-> [s EXCEPT !.wire = Drop(@, io.n)],
          wb |-> FALSE]

msg_channel_read_a_bit(c, s, io) ==
    IF c.state = "Closed"
    THEN Ret(c, s, HasFrame(c.inbuf), NULL, 0, FALSE, FALSE)
    ELSE LET r == ReadOnce(c, s, io)
         IN Ret(r.c, r.s, HasFrame(r.c.inbuf), NULL, 1, FALSE, r.wb)

msg_channel_has_msg(c) == HasFrame(c.inbuf)

msg_channel_at_eof(c) == c.peerEof /\ ~HasFrame(c.inbuf)

msg_channel_set_bulk_transfer(c) == [c EXCEPT !.mode = "Bulk"]

\* Take the first frame off the buffer and decode it.
TakeMsg(c, s, rejectReserved, reads, blocked) ==
    LET n == 4 + DeclaredLen(c.inbuf)
        d == DecodeFrame(Take(c.inbuf, n), rejectReserved)
        c1 == [c EXCEPT !.inbuf = Drop(@, n), !.taken = @ + 1]
    IN IF d.err # "none"
       THEN Ret(CloseOnError(c1, d.err), s, FALSE, NULL, reads, blocked, FALSE)
       ELSE Ret(Settle(c1), s, FALSE, d.msg, reads, blocked, FALSE)

msg_channel_get_msg(c, s, io, rejectReserved) ==
    IF HasFrame(c.inbuf) THEN TakeMsg(c, s, rejectReserved, 0, FALSE)
    ELSE IF c.state = "Closed"
    THEN Ret(c, s, FALSE, NULL, 0, FALSE, FALSE)
    ELSE LET r == ReadOnce(c, s, io)
         IN IF HasFrame(r.c.inbuf)
            THEN TakeMsg(r.c, r.s, rejectReserved, 1, FALSE)
            ELSE Ret(r.c, r.s, FALSE, NULL, 1, FALSE, r.wb)

\* get_msg with a timeout: when no frame is buffered, a blocking read takes
\* what has arrived; if that completes no frame, the call waits for more
\* until the timeout runs out (blocked) or the peer's close shows.
msg_channel_get_msg_with_timeout(c, s, io, rejectReserved) ==
    IF HasFrame(c.inbuf) THEN TakeMsg(c, s, rejectReserved, 0, FALSE)
    ELSE IF c.state = "Closed"
    THEN Ret(c, s, FALSE, NULL, 0, FALSE, FALSE)
    ELSE LET r == ReadOnce(c, s, [io EXCEPT !.n = Max(1, Len(s.wire))])
         IN IF HasFrame(r.c.inbuf)
            THEN TakeMsg(r.c, r.s, rejectReserved, 1, FALSE)
            ELSE IF r.c.state = "Closed" \/ r.wb
            THEN Ret(r.c, r.s, FALSE, NULL, 1, r.wb, r.wb)
            ELSE IF r.s.peerClosed
            THEN Ret([r.c EXCEPT !.state = "Closed", !.peerEof = TRUE],
                     r.s, FALSE, NULL, 2, FALSE, FALSE)
            ELSE Ret(r.c, r.s, FALSE, NULL, 2, TRUE, TRUE)

\* Write one frame; the whole frame goes out or the socket has failed.
msg_send_to_channel(ptr, c, s, io) ==
    IF c.state = "Closed" \/ io.fail
    THEN Ret(IF c.state = "Open" THEN CloseOnError(c, "SocketError") ELSE c,
             s, FALSE, NULL, 0, FALSE, FALSE)
    ELSE Ret(c, [s EXCEPT !.out = @ + 1], TRUE, NULL, 0, FALSE, FALSE)

(***************************************************************************)
(* lib.rs: Message and MessageChannel.                                     *)
(***************************************************************************)
\* Option<Message>::None, and Some(m) as m itself.
None == [variant |-> "None", msg |-> NULL]

\* Faulty variant: the arm of M_USE_CS builds the variant of the arm above.
Message_from_raw_ptr_dup(ptr) ==
    [variant |-> IF ptr.type = "M_USE_CS" THEN "GetCS"
                 ELSE from_raw_ptr_variant(ptr.type),
     msg |-> ptr]

\* Faulty variant: the arm of M_TIMEOUT builds a message instead of
\* panicking.
Message_from_raw_ptr_timeout(ptr) ==
    [variant |-> IF ptr.type = "M_TIMEOUT" THEN "End"
                 ELSE from_raw_ptr_variant(ptr.type),
     msg |-> ptr]

\* Message::from_raw_ptr: the pointer wrapped in the variant of its type.
Message_from_raw_ptr(ptr) ==
    [variant |-> from_raw_ptr_variant(ptr.type), msg |-> ptr]

\* Message::as_raw_ptr
as_raw_ptr(m) == m.msg

\* msg::Ping::new() as a Message
PingMessage == [variant |-> "Ping", msg |-> NativeMsg("M_PING", NoFields)]

\* The native accessors of MonStatsMsg (spec.md 4.2): the string goes in and
\* out as a pointer to a C string.
msg_mon_stats_host_id(p) == p.host_id
msg_mon_stats_set_host_id(p, v) == [p EXCEPT !.host_id = v]
msg_mon_stats_message(p) == p.message
msg_mon_stats_set_message(p, cstr) == [p EXCEPT !.message = cstr]

\* CString::new(value) fails on a value with a NUL byte in it.
HasNul(b) == \E i \in 1..Len(b) : b[i] = 0

\* CStr::from_ptr(ptr).to_bytes(): the bytes before the first NUL.
CStr_to_bytes(b) ==
    IF HasNul(b)
    THEN SubSeq(b, 1, (CHOOSE i \in 1..Len(b) :
                          b[i] = 0 /\ \A j \in 1..(i - 1) : b[j] # 0) - 1)
    ELSE b

\* String::from_utf8(bytes).unwrap(), on bytes of one-byte characters.
from_utf8_unwrap(b) == IF \A i \in 1..Len(b) : b[i] < 128 THEN b ELSE PANIC

\* accessor_simple!: msg::MonitorStats::host_id and ::set_host_id
host_id(m) == msg_mon_stats_host_id(m.msg)
set_host_id(m, value) == [m EXCEPT !.msg = msg_mon_stats_set_host_id(@, value)]

\* accessor_string!: msg::MonitorStats::message and ::set_message; a panic
\* of the setter's unwrap shows as the variant PANIC.
message(m) == from_utf8_unwrap(CStr_to_bytes(msg_mon_stats_message(m.msg)))
set_message(m, value) ==
    IF HasNul(value) THEN [m EXCEPT !.variant = PANIC]
    ELSE [m EXCEPT !.msg = msg_mon_stats_set_message(@, value)]

\* Option<u32>
NoTimeout == [some |-> FALSE, t |-> 0]
Some(t) == [some |-> TRUE, t |-> t]
Timeouts == { Some(50) }

\* The value of a function that returns nothing.
Unit == "()"

\* Faulty variant: the call to the native function is left out.
bulk_transfer_dropped(c) == c

bulk_transfer(c) == msg_channel_set_bulk_transfer(c)

\* Faulty variant: the result is has_msg's from before the read.
read_a_bit_stale(c, s, io) ==
    [msg_channel_read_a_bit(c, s, io) EXCEPT !.retb = msg_channel_has_msg(c)]

read_a_bit(c, s, io) == msg_channel_read_a_bit(c, s, io)

\* Faulty variant: eof calls has_msg.
eof_as_has_msg(c) == msg_channel_has_msg(c)

eof_on_any_close(c) == c.state = "Closed"

eof(c) == msg_channel_at_eof(c)

\* Faulty variant: has_message calls at_eof.
has_message_as_at_eof(c) == msg_channel_at_eof(c)

has_message(c) == msg_channel_has_msg(c)

\* Faulty variant: the two arms of the match on the timeout are exchanged.
recv_swapped(timeout, c, s, io, rejectReserved) ==
    LET r == IF timeout.some
             THEN msg_channel_get_msg(c, s, io, rejectReserved)
             ELSE msg_channel_get_msg_with_timeout(c, s, io, rejectReserved)
    IN [c |-> r.c, s |-> r.s, reads |-> r.reads, blocked |-> r.blocked,
        wb |-> r.wb,
        ret |-> IF r.ptr = NULL THEN None ELSE Message_from_raw_ptr(r.ptr)]

\* Faulty variant: no null check; a null pointer is wrapped as whatever
\* message it is taken for.
recv_unchecked(timeout, c, s, io, rejectReserved) ==
    LET r == IF ~timeout.some
             THEN msg_channel_get_msg(c, s, io, rejectReserved)
             ELSE msg_channel_get_msg_with_timeout(c, s, io, rejectReserved)
    IN [c |-> r.c, s |-> r.s, reads |-> r.reads, blocked |-> r.blocked,
        wb |-> r.wb,
        ret |-> IF r.ptr = NULL THEN [variant |-> "Ping", msg |-> NULL]
                ELSE Message_from_raw_ptr(r.ptr)]

\* recv: the native call picked by the timeout, then the null check.
\* Faulty variant: a message that is followed by another complete frame is
\* dropped and the next one returned.
recv_skipping(timeout, c, s, io, rejectReserved) ==
    LET r1 == IF ~timeout.some
              THEN msg_channel_get_msg(c, s, io, rejectReserved)
              ELSE msg_channel_get_msg_with_timeout(c, s, io, rejectReserved)
        r == IF r1.ptr # NULL /\ msg_channel_has_msg(r1.c)
             THEN msg_channel_get_msg(r1.c, r1.s, io, rejectReserved)
             ELSE r1
    IN [c |-> r.c, s |-> r.s, reads |-> r1.reads, blocked |-> r1.blocked,
        wb |-> r1.wb,
        ret |-> IF r.ptr = NULL THEN None ELSE Message_from_raw_ptr(r.ptr)]

recv(timeout, c, s, io, rejectReserved) ==
    LET r == IF ~timeout.some
             THEN msg_channel_get_msg(c, s, io, rejectReserved)
             ELSE msg_channel_get_msg_with_timeout(c, s, io, rejectReserved)
    IN [c |-> r.c, s |-> r.s, reads |-> r.reads, blocked |-> r.blocked,
        wb |-> r.wb,
        ret |-> IF r.ptr = NULL THEN None ELSE Message_from_raw_ptr(r.ptr)]

\* send: the native call's outcome does not come back.
send(m, c, s, io) ==
    LET r == msg_send_to_channel(as_raw_ptr(m), c, s, io)
    IN [c |-> r.c, s |-> r.s, wrote |-> r.retb, ret |-> Unit]

(***************************************************************************)
(* The peer.                                                               *)
(***************************************************************************)
\* A peer writes MonitorStats{hostId = 3, message = "busy"} frames and
\* frames of one other shape, its own:
\*   bare:  a frame of some type code and no payload;
\*   trunc: a MonitorStats frame that ends inside its first field;
\*   huge:  a length prefix of 0xFFFFFFFF.
FrameKinds == { "own", "stats" }

StatsCode == TagCode("M_MON_STATS")

StatsFrame == Encode(StatsCode, U32(3) \o U32(Len(StrBusy)) \o StrBusy)

TruncFrame == Encode(StatsCode, << 0, 0 >>)

Bare(code) == [shape |-> "bare", code |-> code]
Trunc == [shape |-> "trunc", code |-> StatsCode]
Huge == [shape |-> "huge", code |-> 0]

\* The peers of the runs of the channel's state machine: the tag-only frame
\* carries a reserved type's code (M_UNKNOWN) or a message's (M_PING).
PeerFrames == { Bare(1), Bare(2), Trunc, Huge }

\* The peers of the runs of the tag dispatch: a tag-only frame of any code.
DispatchFrames == { Bare(code) : code \in WireCodes }

FrameBytes(k, own) ==
    IF k = "stats" THEN StatsFrame
    ELSE CASE own.shape = "bare" -> Encode(own.code, << >>)
           [] own.shape = "trunc" -> TruncFrame
           [] own.shape = "huge" -> U32AllOnes

\* Whether a frame's code is a reserved type's, where the native decoder's
\* treatment of the reserved types shows.
IsReserved(own) ==
    /\ own.shape = "bare"
    /\ own.code \in 1..Len(MsgTypes)
    /\ MsgTypes[own.code] \in ReservedTypes

NativeChoices(own) == IF IsReserved(own) THEN BOOLEAN ELSE { FALSE }

(***************************************************************************)
(* State.                                                                  *)
(***************************************************************************)
\* The number of bytes the peer has written so far.
SentEnd == IF sent = << >> THEN 0 ELSE sent[Len(sent)].end

NoOp ==
    [op |-> "new", retb |-> FALSE, retm |-> None, ret |-> Unit, reads |-> 0,
     blocked |-> FALSE, wb |-> FALSE, wrote |-> FALSE, hadMsg |-> FALSE,
     wasOpen |-> TRUE, afterEof |-> FALSE, afterErr |-> FALSE]

\* The record of a call, to be filled with what it returned: whether, when
\* it was made, a complete frame was buffered, the channel was open, eof()
\* had returned true, an error had closed the channel.
Call(op) ==
    [NoOp EXCEPT !.op = op, !.hadMsg = HasFrame(mc.inbuf),
                 !.wasOpen = (mc.state = "Open"), !.afterEof = eofSeen,
                 !.afterErr = (mc.err # "none")]

Init ==
    /\ mc = NewChannel
    /\ sock = NewSocket
    /\ sent = << >>
    /\ peerFrame \in PeerFrames
    /\ lastOp = NoOp
    /\ eofSeen = FALSE
    /\ panicked = FALSE
    /\ mon = Absent
    /\ sd = Absent
    /\ rc = Absent
    /\ job = Absent
    /\ rt = Absent

(***************************************************************************)
(* The calls of the owner of the channel.                                  *)
(***************************************************************************)
BulkTransfer ==
    /\ ~panicked
    /\ mc' = bulk_transfer(mc)
    /\ lastOp' = Call("bulk_transfer")
    /\ UNCHANGED << sock, sent, peerFrame, eofSeen, panicked, otherVars >>

ReadABit ==
    /\ ~panicked
    /\ \E io \in IoChoices :
         LET r == read_a_bit(mc, sock, io)
         IN /\ mc' = r.c
            /\ sock' = r.s
            /\ lastOp' = [Call("read_a_bit") EXCEPT
                            !.retb = r.retb, !.reads = r.reads, !.wb = r.wb]
    /\ UNCHANGED << sent, peerFrame, eofSeen, panicked, otherVars >>

\* eof() and has_message() take &self: they change nothing of the channel.
Eof ==
    /\ ~panicked
    /\ eofSeen' = (eofSeen \/ eof(mc))
    /\ UNCHANGED << mc, sock, sent, peerFrame, lastOp, panicked, otherVars >>

HasMessage ==
    /\ ~panicked
    /\ has_message(mc) \in BOOLEAN
    /\ UNCHANGED vars

\* What recv leaves behind: a panic in from_raw_ptr ends the caller.
Received(op, timeout, io, rejectReserved) ==
    LET r == recv(timeout, mc, sock, io, rejectReserved)
    IN /\ mc' = r.c
       /\ sock' = r.s
       /\ panicked' = (r.ret.variant = PANIC)
       /\ lastOp' = [Call(op) EXCEPT
                       !.op = IF r.ret.variant = PANIC THEN "panic" ELSE op,
                       !.retm = IF r.ret.variant = PANIC THEN None ELSE r.ret,
                       !.reads = r.reads, !.blocked = r.blocked, !.wb = r.wb]
       /\ UNCHANGED << sent, peerFrame, eofSeen, otherVars >>

Recv ==
    /\ ~panicked
    /\ \E io \in IoChoices, rejectReserved \in NativeChoices(peerFrame) :
         Received("recv", NoTimeout, io, rejectReserved)

RecvTimeout ==
    /\ ~panicked
    /\ \E timeout \in Timeouts, io \in IoChoices,
          rejectReserved \in NativeChoices(peerFrame) :
         Received("recv_timeout", timeout, io, rejectReserved)

Send ==
    /\ ~panicked
    /\ sock.out < MaxSends
    /\ \E fail \in BOOLEAN :
         LET r == send(PingMessage, mc, sock, [n |-> 1, fail |-> fail])
         IN /\ mc' = r.c
            /\ sock' = r.s
            /\ lastOp' = [Call("send") EXCEPT
                            !.wrote = r.wrote, !.ret = r.ret]
    /\ UNCHANGED << sent, peerFrame, eofSeen, panicked, otherVars >>

(***************************************************************************)
(* The peer and the network.                                               *)
(***************************************************************************)
PeerSend ==
    /\ Len(sent) < MaxFrames
    /\ ~sock.peerClosed
    /\ \E k \in FrameKinds :
         /\ sock' = [sock EXCEPT !.wire = @ \o FrameBytes(k, peerFrame)]
         /\ sent' = Append(sent, [kind |-> k,
                                  end |-> SentEnd + Len(FrameBytes(k, peerFrame))])
    /\ UNCHANGED << mc, peerFrame, lastOp, eofSeen, panicked, otherVars >>

PeerClose ==
    /\ ~sock.peerClosed
    /\ sock' = [sock EXCEPT !.peerClosed = TRUE]
    /\ UNCHANGED << mc, sent, peerFrame, lastOp, eofSeen, panicked, otherVars >>

Next ==
    \/ BulkTransfer
    \/ ReadABit
    \/ Eof
    \/ HasMessage
    \/ Recv
    \/ RecvTimeout
    \/ Send
    \/ PeerSend
    \/ PeerClose

Spec == Init /\ [][Next]_vars

(***************************************************************************)
(* The runs of the tag dispatch: the peer's tag-only frame carries any     *)
(* code, the owner sends and receives.                                     *)
(***************************************************************************)
InitDispatch ==
    /\ mc = NewChannel
    /\ sock = NewSocket
    /\ sent = << >>
    /\ peerFrame \in DispatchFrames
    /\ lastOp = NoOp
    /\ eofSeen = FALSE
    /\ panicked = FALSE
    /\ mon = Absent
    /\ sd = Absent
    /\ rc = Absent
    /\ job = Absent
    /\ rt = Absent

NextDispatch ==
    \/ Recv
    \/ Send
    \/ PeerSend

SpecDispatch == InitDispatch /\ [][NextDispatch]_vars


(***************************************************************************)
(* A MonitorStats message from its sender to its receiver's getters.       *)
(***************************************************************************)
\* Message encode (spec.md 4.2): the tag, then the fields in their order,
\* integers in network byte order, strings with a length before them.
EncodeMsg(p) ==
    Encode(TagCode(p.type),
           IF p.type = "M_MON_STATS"
           THEN U32(p.host_id) \o U32(Len(p.message)) \o p.message
           ELSE << >>)

\* The bytes of a string's characters: NUL, "a", "b".
StrBytes == { 0, 97, 98 }
Strings == UNION { [1..n -> StrBytes] : n \in 0..MaxStr }
HostIds == { 0, 3 }

\* A default-constructed MonitorStats.
NewMonitorStats ==
    [variant |-> "MonitorStats", msg |-> NativeMsg("M_MON_STATS", NoFields)]

InitRoundTrip ==
    /\ rt \in [stage : { "new" }, by : { "none" }, value : Strings,
                id : HostIds, m : { NewMonitorStats }, frame : { << >> },
                outMessage : { << >> }, outId : { 0 }]
    /\ mc = Absent /\ sock = Absent /\ sent = Absent /\ peerFrame = Absent
    /\ lastOp = Absent /\ eofSeen = Absent /\ panicked = Absent
    /\ mon = Absent /\ sd = Absent /\ rc = Absent /\ job = Absent

\* The sender fills the message with the setters of lib.rs.
RtSet ==
    /\ rt.stage = "new"
    /\ LET m1 == set_message(set_host_id(rt.m, rt.id), rt.value)
       IN rt' = IF m1.variant = PANIC
                THEN [rt EXCEPT !.stage = "panicked", !.by = "setter"]
                ELSE [rt EXCEPT !.stage = "filled", !.by = "setter", !.m = m1]
    /\ UNCHANGED << chanVars, mon, sd, rc, job >>

\* The sender is a native peer: it fills the message's fields itself.
RtPeerFill ==
    /\ rt.stage = "new"
    /\ rt' = [rt EXCEPT !.stage = "filled", !.by = "peer",
                        !.m.msg.host_id = rt.id, !.m.msg.message = rt.value]
    /\ UNCHANGED << chanVars, mon, sd, rc, job >>

RtEncode ==
    /\ rt.stage = "filled"
    /\ rt' = [rt EXCEPT !.stage = "sent", !.frame = EncodeMsg(as_raw_ptr(rt.m))]
    /\ UNCHANGED << chanVars, mon, sd, rc, job >>

\* The receiver decodes the frame; its message takes the sender's place.
RtDecode ==
    /\ rt.stage = "sent"
    /\ LET d == DecodeFrame(rt.frame, TRUE)
       IN /\ d.err = "none"
          /\ rt' = [rt EXCEPT !.stage = "received",
                              !.m = Message_from_raw_ptr(d.msg)]
    /\ UNCHANGED << chanVars, mon, sd, rc, job >>

RtGet ==
    /\ rt.stage = "received"
    /\ rt' = [rt EXCEPT !.stage = "got", !.outMessage = message(rt.m),
                        !.outId = host_id(rt.m)]
    /\ UNCHANGED << chanVars, mon, sd, rc, job >>

NextRoundTrip ==
    \/ RtSet
    \/ RtPeerFill
    \/ RtEncode
    \/ RtDecode
    \/ RtGet

SpecRoundTrip == InitRoundTrip /\ [][NextRoundTrip]_vars

\* C11: what the receiver's getters return of a decoded message is what its
\* sender put in, whatever the valid values, and no setter fails on one.
C11_RoundTrip ==
    /\ rt.stage # "panicked"
    /\ rt.stage = "got" => rt.outMessage = rt.value /\ rt.outId = rt.id

(***************************************************************************)
(* ScheduleDiscoverer.  Time is counted in units of 2^16 ms, so that a u32 *)
(* of milliseconds is one of 0..U32Span-1 units and a c_int one of         *)
(* -(I32Max+1)..I32Max; the timeouts tried are whole units.                *)
(***************************************************************************)
U32Span == 65536
I32Max == 32767

\* `timeout as c_int` of a u32.
as_c_int(t) == IF t > I32Max THEN t - U32Span ELSE t

\* The native DiscoverSched (spec.md 4.4).  The timeout used when none is
\* given.
DefaultTimeout == 1
NoHost == ""
Schedulers == { "s1", "s2" }

discover_sched_new_with_options(netname, scheduler, timeout) ==
    [netname |-> netname, host |-> scheduler, timeout |-> timeout,
     phase |-> IF scheduler = NoHost THEN "probing" ELSE "connecting",
     probes |-> IF scheduler = NoHost THEN 1 ELSE 0,
     target |-> scheduler]

discover_sched_new(netname) ==
    discover_sched_new_with_options(netname, NoHost, DefaultTimeout)

\* A channel's pointer tells the scheduler it is connected to.
NullChannel == [peer |-> "null"]
ChannelTo(s) == [peer |-> s]

\* true once the time elapsed since the start of discovery exceeds the
\* timeout and no scheduler has been found.
discover_sched_timed_out(d, now) ==
    now > d.timeout /\ d.phase \notin { "connected", "returned" }

\* The connected channel, once, and null before and after.
discover_sched_try_get_scheduler(d) ==
    IF d.phase = "connected"
    THEN [d |-> [d EXCEPT !.phase = "returned"], ptr |-> ChannelTo(d.target)]
    ELSE [d |-> d, ptr |-> NullChannel]

\* Faulty variant: every valid reply starts a connection, also a later one.
discover_sched_on_reply_last(d, s, valid) ==
    IF valid /\ d.host = NoHost /\ d.phase \in { "probing", "connecting" }
    THEN [d EXCEPT !.phase = "connecting", !.target = s]
    ELSE d

\* A scheduler's reply to the broadcast: the first valid one starts the
\* connection to its sender, every other is ignored.
discover_sched_on_reply(d, s, valid) ==
    IF valid /\ d.phase = "probing"
    THEN [d EXCEPT !.phase = "connecting", !.target = s]
    ELSE d

\* lib.rs: MessageChannel::from_raw_ptr asserts that the pointer is not null.
MessageChannel_from_raw_ptr(ptr) ==
    IF ptr = NullChannel THEN [mc |-> ptr, panic |-> TRUE]
    ELSE [mc |-> ptr, panic |-> FALSE]

\* Option<MessageChannel>
NoChannel == [some |-> FALSE, chan |-> [mc |-> NullChannel, panic |-> FALSE]]
SomeChannel(ch) == [some |-> TRUE, chan |-> ch]

\* Option<&String> for the network name
NoName == "null"

\* ScheduleDiscoverer::new
ScheduleDiscoverer_new(netname) == discover_sched_new(netname)

\* Faulty variant: the scheduler and the network name change places.
new_with_options_swapped(netname, scheduler, timeout) ==
    discover_sched_new_with_options(scheduler, netname, as_c_int(timeout))

\* ScheduleDiscoverer::new_with_options
new_with_options(netname, scheduler, timeout) ==
    discover_sched_new_with_options(netname, scheduler, as_c_int(timeout))

\* Faulty variant: the native function's result is not passed on.
timed_out_dropped(d, now) == FALSE

\* ScheduleDiscoverer::timed_out
timed_out(d, now) == discover_sched_timed_out(d, now)

\* Faulty variant: no null check.
try_get_scheduler_unchecked(d) ==
    LET r == discover_sched_try_get_scheduler(d)
    IN [d |-> r.d, ret |-> SomeChannel(MessageChannel_from_raw_ptr(r.ptr))]

\* ScheduleDiscoverer::try_get_scheduler
try_get_scheduler(d) ==
    LET r == discover_sched_try_get_scheduler(d)
    IN [d |-> r.d,
        ret |-> IF r.ptr = NullChannel THEN NoChannel
                ELSE SomeChannel(MessageChannel_from_raw_ptr(r.ptr))]

\* The discoverers made: by new, without and with a network name, and by
\* new_with_options, without and with a scheduler host, with timeouts of
\* 0 ms, 2^17 ms, 2^31 ms and 2^32 - 2^16 ms.
Configs ==
    { [ctor |-> "new", netname |-> n, host |-> NoHost,
       timeout |-> DefaultTimeout] : n \in { NoName, "n" } }
    \cup
    { [ctor |-> "new_with_options", netname |-> "n", host |-> h,
       timeout |-> t] : h \in { NoHost, "h" }, t \in { 0, 2, 32768, 65535 } }

Construct(a) ==
    IF a.ctor = "new" THEN ScheduleDiscoverer_new(a.netname)
    ELSE new_with_options(a.netname, a.host, a.timeout)

\* sd: the native object d; what its maker asked for; whether a scheduler
\* can be reached; the time since discovery started; the sender of the
\* first valid reply and whether a valid reply of another came after it;
\* where discover_scheduler (examples/monitor.rs) stands, the phase its last
\* try_get_scheduler found and what that returned.
InitDiscover ==
    /\ sd \in { [d |-> Construct(a), asked |-> a, reachable |-> r, now |-> 0,
                  first |-> "none", late |-> FALSE, pc |-> "try",
                  tried |-> "none", ret |-> NoChannel]
                 : a \in Configs, r \in BOOLEAN }
    /\ mc = Absent /\ sock = Absent /\ sent = Absent /\ peerFrame = Absent
    /\ lastOp = Absent /\ eofSeen = Absent /\ panicked = Absent
    /\ mon = Absent /\ rc = Absent /\ job = Absent /\ rt = Absent

\* The clock advances.
Tick ==
    /\ sd.now < MaxClock
    /\ sd' = [sd EXCEPT !.now = @ + 1]
    /\ UNCHANGED << chanVars, mon, rc, job, rt >>

\* The discoverer sends its broadcast probe again.
Probe ==
    /\ sd.d.phase = "probing"
    /\ sd.d.probes < MaxProbes
    /\ ~discover_sched_timed_out(sd.d, sd.now)
    /\ sd' = [sd EXCEPT !.d.probes = @ + 1]
    /\ UNCHANGED << chanVars, mon, rc, job, rt >>

\* A scheduler's reply to a probe arrives; a reply for another network is
\* not valid.
Reply ==
    /\ sd.reachable
    /\ sd.d.probes > 0
    /\ \E s \in Schedulers, valid \in BOOLEAN :
         sd' = [sd EXCEPT
                  !.d = discover_sched_on_reply(sd.d, s, valid),
                  !.first = IF valid /\ @ = "none" THEN s ELSE @,
                  !.late = @ \/ (valid /\ sd.first \notin { "none", s })]
    /\ UNCHANGED << chanVars, mon, rc, job, rt >>

\* The TCP handshake with the scheduler completes.
ConnectDone ==
    /\ sd.reachable
    /\ sd.d.phase = "connecting"
    /\ sd' = [sd EXCEPT !.d.phase = "connected"]
    /\ UNCHANGED << chanVars, mon, rc, job, rt >>

\* discover_scheduler: match disco.try_get_scheduler()
LoopTry ==
    /\ sd.pc = "try"
    /\ LET r == try_get_scheduler(sd.d)
       IN sd' = [sd EXCEPT !.d = r.d, !.tried = sd.d.phase, !.ret = r.ret,
                           !.pc = IF r.ret.some THEN "ok" ELSE "check"]
    /\ UNCHANGED << chanVars, mon, rc, job, rt >>

\* discover_scheduler: if disco.timed_out()
LoopCheck ==
    /\ sd.pc = "check"
    /\ sd' = [sd EXCEPT !.pc = IF timed_out(sd.d, sd.now) THEN "err"
                               ELSE "sleep"]
    /\ UNCHANGED << chanVars, mon, rc, job, rt >>

\* discover_scheduler: sleep, then the next round of the loop
LoopSleep ==
    /\ sd.pc = "sleep"
    /\ sd' = [sd EXCEPT !.pc = "try"]
    /\ UNCHANGED << chanVars, mon, rc, job, rt >>

LoopStep == LoopTry \/ LoopCheck \/ LoopSleep

NextDiscover ==
    \/ Tick
    \/ Probe
    \/ Reply
    \/ ConnectDone
    \/ LoopTry
    \/ LoopCheck
    \/ LoopSleep

SpecDiscover == InitDiscover /\ [][NextDiscover]_vars

\* The loop's thread runs and the clock advances.
SpecDiscoverLive ==
    /\ InitDiscover
    /\ [][NextDiscover]_vars
    /\ WF_vars(LoopStep)
    /\ WF_vars(Tick)

\* C12: the loop ends with the timed-out error only when at least the
\* timeout its maker asked for has elapsed, and without a scheduler in reach
\* no channel is returned.
C12_DiscoveryTimeout ==
    /\ sd.pc = "err" => sd.now >= sd.asked.timeout
    /\ ~sd.reachable => ~sd.ret.some

\* C13: try_get_scheduler returns none while the discoverer is probing or
\* connecting; it returns a channel only when the connection is
\* established, and the channel's pointer is not null.
C13_TryGetScheduler ==
    /\ sd.tried \in { "probing", "connecting" } => ~sd.ret.some
    /\ sd.ret.some => /\ sd.tried = "connected"
                      /\ ~sd.ret.chan.panic
                      /\ sd.ret.chan.mc # NullChannel
                      /\ sd.ret.chan.mc.peer \in Schedulers \cup { "h" }
    /\ sd.pc = "ok" <=> sd.ret.some

C13_Witness ==
    /\ sd.pc = "ok"
    /\ sd.ret.some
    /\ sd.tried = "connected"
    /\ sd.now > 0

\* C14: a discoverer that broadcasts connects to the sender of the first
\* valid reply; no reply after it changes that, and the channel returned is
\* connected to that scheduler.
C14_FirstReplyWins ==
    sd.d.host = NoHost
        => /\ sd.first = "none" => sd.d.phase = "probing"
           /\ sd.first # "none" => sd.d.target = sd.first
           /\ sd.ret.some => sd.ret.chan.mc = ChannelTo(sd.first)

C14_Witness ==
    /\ sd.d.host = NoHost
    /\ sd.late
    /\ sd.first = "s1"
    /\ sd.ret.some
    /\ sd.ret.chan.mc = ChannelTo("s1")

\* C15: a discoverer made with a scheduler host sends no broadcast probe
\* and connects to that host only.
C15_ExplicitHost ==
    sd.asked.host # NoHost
        => /\ sd.d.probes = 0
           /\ sd.d.phase # "probing"
           /\ sd.d.target = sd.asked.host
           /\ sd.first = "none"
           /\ sd.ret.some => sd.ret.chan.mc = ChannelTo(sd.asked.host)

C15_Witness ==
    /\ sd.asked.host = "h"
    /\ sd.ret.some
    /\ sd.ret.chan.mc = ChannelTo("h")

\* C19: with the clock advancing, discover_scheduler's loop ends, with a
\* connected channel or with the timed-out error and not both; once it has
\* ended nothing of the discoverer changes, and no probe is sent once the
\* timeout has passed.
C19_LoopTerminates ==
    /\ <>(sd.pc \in { "ok", "err" })
    /\ [](sd.pc = "ok" => sd.ret.some /\ sd.d.phase = "returned")
    /\ [](sd.pc = "err" => ~sd.ret.some /\ sd.d.phase # "returned")
    /\ [][/\ sd.pc \in { "ok", "err" } => sd'.pc = sd.pc /\ sd'.ret = sd.ret
          /\ discover_sched_timed_out(sd.d, sd.now)
                 => sd'.d.probes = sd.d.probes]_vars

C19_Witness ==
    /\ sd.pc = "err"
    /\ sd.now >= sd.asked.timeout
    /\ sd.asked.timeout = 2
    /\ sd.d.probes = MaxProbes

(***************************************************************************)
(* Handles: ScheduleDiscoverer and MessageChannel are clonable structs     *)
(* around an Rc of the wrapped native pointer; the wrapper's Drop calls    *)
(* the native free.                                                        *)
(***************************************************************************)
MaxHandles == 3

Resources == { "DiscoverSched", "MsgChannel" }

\* A native object that was never allocated, and one just allocated: how
\* often it was freed, whether it was used after a free.
NoObject == [made |-> FALSE, strong |-> 0, live |-> {}, n |-> 0,
             frees |-> 0, usedFreed |-> FALSE]

\* The native free of a wrapped pointer.
sysfree(r) == [r EXCEPT !.frees = @ + 1]

\* Drop for the pointer wrapper.
ptr_drop(r) == sysfree(r)

\* Any call through a handle dereferences the wrapped pointer.
as_ptr(r) == [r EXCEPT !.usedFreed = @ \/ r.frees > 0]

\* Rc::new(ptr::X(p)): the first handle.
Rc_new == [NoObject EXCEPT !.made = TRUE, !.strong = 1, !.live = { 1 },
                           !.n = 1]

\* Faulty variant: a clone that copies the wrapper without counting it.
derive_Clone_uncounted(r) ==
    [r EXCEPT !.live = @ \cup { r.n + 1 }, !.n = @ + 1]

\* #[derive(Clone)] on the handle: Rc::clone, one more strong reference.
derive_Clone(r) ==
    [r EXCEPT !.strong = @ + 1, !.live = @ \cup { r.n + 1 }, !.n = @ + 1]

\* Faulty variant: every handle's drop frees the native object.
drop_handle_frees(r, h) ==
    ptr_drop([r EXCEPT !.strong = @ - 1, !.live = @ \ { h }])

\* Dropping handle h: the strong count goes down, and the wrapper is
\* dropped when it reaches zero.
drop_handle(r, h) ==
    LET r1 == [r EXCEPT !.strong = @ - 1, !.live = @ \ { h }]
    IN IF r1.strong = 0 THEN ptr_drop(r1) ELSE r1

InitHandles ==
    /\ rc = [DiscoverSched |-> Rc_new, MsgChannel |-> NoObject,
             last |-> "new"]
    /\ mc = Absent
    /\ sock = Absent
    /\ sent = Absent
    /\ peerFrame = Absent
    /\ lastOp = Absent
    /\ eofSeen = Absent
    /\ panicked = Absent
    /\ mon = Absent
    /\ sd = Absent
    /\ job = Absent
    /\ rt = Absent

HandleVars == << chanVars, mon, sd, job, rt >>

\* try_get_scheduler through a handle of the discoverer, once connected:
\* the channel's first handle.
HandleGetChannel ==
    /\ rc.DiscoverSched.live # {}
    /\ ~rc.MsgChannel.made
    /\ rc' = [rc EXCEPT !.DiscoverSched = as_ptr(@), !.MsgChannel = Rc_new,
                        !.last = "try_get_scheduler"]
    /\ UNCHANGED HandleVars

HandleClone ==
    /\ \E k \in Resources :
         /\ rc[k].live # {}
         /\ rc[k].n < MaxHandles
         /\ rc' = [rc EXCEPT ![k] = derive_Clone(@), !.last = "clone"]
    /\ UNCHANGED HandleVars

HandleDrop ==
    /\ \E k \in Resources : \E h \in rc[k].live :
         rc' = [rc EXCEPT ![k] = drop_handle(@, h), !.last = "drop"]
    /\ UNCHANGED HandleVars

\* Any other method of a live handle.
HandleUse ==
    /\ \E k \in Resources :
         /\ rc[k].live # {}
         /\ rc' = [rc EXCEPT ![k] = as_ptr(@), !.last = "use"]
    /\ UNCHANGED HandleVars

NextHandles ==
    \/ HandleGetChannel
    \/ HandleClone
    \/ HandleDrop
    \/ HandleUse

SpecHandles == InitHandles /\ [][NextHandles]_vars

\* C17: over any clones and drops of the handles of a channel or of a
\* discoverer, the native object is freed exactly once, when the last
\* handle is dropped, and it is never used after that.
C17_SingleCloser ==
    \A k \in Resources :
        /\ rc[k].frees <= 1
        /\ rc[k].made => (rc[k].frees = 1 <=> rc[k].live = {})
        /\ ~rc[k].usedFreed

C17_Witness ==
    /\ rc.MsgChannel.n = MaxHandles
    /\ rc.MsgChannel.live = {}
    /\ rc.MsgChannel.frees = 1
    /\ rc.DiscoverSched.n > 1
    /\ rc.DiscoverSched.frees = 1
    /\ rc.last = "drop"

(***************************************************************************)
(* CompileJob: a handle on a native job, its fields read and written       *)
(* through the accessors.                                                  *)
(***************************************************************************)
Languages == { "C", "CPlusPlus", "ObjectiveC", "Custom" }
SysLanguages == { "C", "CXX", "OBJC", "CUSTOM" }

\* Faulty variant: the arms of CXX and OBJC give each other's value.
Language_from_swapped(lang) ==
    CASE lang = "C" -> "C"
      [] lang = "CXX" -> "ObjectiveC"
      [] lang = "OBJC" -> "CPlusPlus"
      [] lang = "CUSTOM" -> "Custom"

\* impl From<sys::CompileJobLanguage> for Language
Language_from(lang) ==
    CASE lang = "C" -> "C"
      [] lang = "CXX" -> "CPlusPlus"
      [] lang = "OBJC" -> "ObjectiveC"
      [] lang = "CUSTOM" -> "Custom"

\* impl From<Language> for sys::CompileJobLanguage
CompileJobLanguage_from(lang) ==
    CASE lang = "C" -> "C"
      [] lang = "CPlusPlus" -> "CXX"
      [] lang = "ObjectiveC" -> "OBJC"
      [] lang = "Custom" -> "CUSTOM"

StringFields ==
    { "compiler_name", "environment_version", "input_file", "output_file",
      "target_platform" }
JobFields == { "job_id", "language" } \cup StringFields

\* The native job after compile_job_new, whatever its language.
compile_job_new(lang) ==
    [job_id |-> 0, language |-> lang, compiler_name |-> << >>,
     environment_version |-> << >>, input_file |-> << >>,
     output_file |-> << >>, target_platform |-> << >>]

\* The native getters and setters of a field; a string goes in and comes
\* out as a C string.
compile_job_get(cj, f) == cj[f]
compile_job_set(cj, f, v) == [cj EXCEPT ![f] = v]

CompileJob_new(lang) == [cj |-> compile_job_new(lang), panic |-> FALSE]

\* accessor_simple!: the value goes through into() both ways.
get_simple(j, f) ==
    IF f = "language" THEN Language_from(compile_job_get(j.cj, f))
    ELSE compile_job_get(j.cj, f)

set_simple(j, f, value) ==
    [j EXCEPT !.cj = compile_job_set(@, f,
                        IF f = "language" THEN CompileJobLanguage_from(value)
                        ELSE value)]

\* accessor_string!: the getter copies the C string up to its NUL and
\* unwraps it as UTF-8; the setter unwraps CString::new(value).
get_string(j, f) == from_utf8_unwrap(CStr_to_bytes(compile_job_get(j.cj, f)))

set_string(j, f, value) ==
    IF HasNul(value) THEN [j EXCEPT !.panic = TRUE]
    ELSE [j EXCEPT !.cj = compile_job_set(@, f, value)]

\* What the getters of a job return.
Getters(j) ==
    [f \in JobFields |->
        IF f \in StringFields THEN get_string(j, f) ELSE get_simple(j, f)]

JobIds == { 0, 7 }
JobStrings == { << >>, << 97 >>, << 98, 97 >>, << 97, 0, 98 >> }

InitJob ==
    /\ \E lang \in SysLanguages :
         job = [j |-> CompileJob_new(lang), op |-> "new", field |-> "none",
                value |-> 0, before |-> Getters(CompileJob_new(lang))]
    /\ mc = Absent
    /\ sock = Absent
    /\ sent = Absent
    /\ peerFrame = Absent
    /\ lastOp = Absent
    /\ eofSeen = Absent
    /\ panicked = Absent
    /\ mon = Absent
    /\ sd = Absent
    /\ rc = Absent
    /\ rt = Absent

JobVars == << chanVars, mon, sd, rc, rt >>

\* A setter was called on field f with a value.
JobSet(f, value, j1) ==
    job' = [j |-> j1, op |-> "set", field |-> f, value |-> value,
            before |-> Getters(job.j)]

SetJobId ==
    /\ ~job.j.panic
    /\ \E value \in JobIds : JobSet("job_id", value, set_simple(job.j, "job_id", value))
    /\ UNCHANGED JobVars

SetLanguage ==
    /\ ~job.j.panic
    /\ \E value \in Languages :
         JobSet("language", value, set_simple(job.j, "language", value))
    /\ UNCHANGED JobVars

SetString ==
    /\ ~job.j.panic
    /\ \E f \in StringFields, value \in JobStrings :
         JobSet(f, value, set_string(job.j, f, value))
    /\ UNCHANGED JobVars

NextJob ==
    \/ SetJobId
    \/ SetLanguage
    \/ SetString

SpecJob == InitJob /\ [][NextJob]_vars

\* C18: a new job has id 0 and empty strings; a setter changes its own
\* field only, and the field's getter then returns the value set.
C18_JobAccessors ==
    /\ job.op = "new" =>
         /\ Getters(job.j)["job_id"] = 0
         /\ \A f \in StringFields : Getters(job.j)[f] = << >>
    /\ job.op = "set" =>
         /\ ~job.j.panic
         /\ Getters(job.j)[job.field] = job.value
         /\ \A f \in JobFields \ { job.field } :
              Getters(job.j)[f] = job.before[f]

\* The same for the values without a NUL byte.
C18_NulFree ==
    (job.op = "set" /\ job.field \in StringFields => ~HasNul(job.value))
        => C18_JobAccessors

\* C22: the conversions between Language and sys::CompileJobLanguage are
\* inverse to each other, one-to-one and onto, and language() returns the
\* value set_language was given.
C22_LanguageBijection ==
    /\ \A l \in Languages :
         /\ CompileJobLanguage_from(l) \in SysLanguages
         /\ Language_from(CompileJobLanguage_from(l)) = l
    /\ \A l \in SysLanguages :
         /\ Language_from(l) \in Languages
         /\ CompileJobLanguage_from(Language_from(l)) = l
    /\ job.j.cj.language \in SysLanguages
    /\ job.op = "set" /\ job.field = "language"
         => get_simple(job.j, "language") = job.value

C22_Witness ==
    /\ job.op = "set"
    /\ job.field = "language"
    /\ job.value = "ObjectiveC"
    /\ job.j.cj.language = "OBJC"
    /\ job.before["language"] = "CPlusPlus"

(***************************************************************************)
(* The monitor: main of examples/monitor.rs on the channel the discovery   *)
(* returned, the peer sending frames and closing.                          *)
(***************************************************************************)
InitMonitor ==
    /\ mc = NewChannel
    /\ sock = NewSocket
    /\ sent = << >>
    /\ peerFrame \in PeerFrames
    /\ lastOp = NoOp
    /\ eofSeen = FALSE
    /\ panicked = FALSE
    /\ mon = [pc |-> "start", handled |-> 0]
    /\ sd = Absent
    /\ rc = Absent
    /\ job = Absent
    /\ rt = Absent

MonitorVars == << sent, peerFrame, lastOp, eofSeen, sd, rc, job, rt >>

\* chan.bulk_transfer(); chan.send(Ping)
MonStart ==
    /\ mon.pc = "start"
    /\ \E fail \in BOOLEAN :
         LET r == send(PingMessage, bulk_transfer(mc), sock,
                       [n |-> 1, fail |-> fail])
         IN /\ mc' = r.c
            /\ sock' = r.s
    /\ mon' = [mon EXCEPT !.pc = "outer"]
    /\ UNCHANGED << MonitorVars, panicked >>

\* while !chan.eof()
MonOuter ==
    /\ mon.pc = "outer"
    /\ mon' = [mon EXCEPT !.pc = IF eof(mc) THEN "done" ELSE "poll"]
    /\ UNCHANGED << MonitorVars, mc, sock, panicked >>

\* poll(fd, POLLIN, -1): waits until the socket is readable or closed.
MonPoll ==
    /\ mon.pc = "poll"
    /\ sock.wire # << >> \/ sock.peerClosed \/ mc.state = "Closed"
    /\ mon' = [mon EXCEPT !.pc = "inner"]
    /\ UNCHANGED << MonitorVars, mc, sock, panicked >>

\* while !chan.read_a_bit() || chan.has_message(); leaving the loop, the
\* thread sleeps and goes back to the outer condition.
MonInner ==
    /\ mon.pc = "inner"
    /\ \E io \in IoChoices :
         LET r == read_a_bit(mc, sock, io)
         IN /\ mc' = r.c
            /\ sock' = r.s
            /\ mon' = [mon EXCEPT !.pc = IF ~r.retb \/ has_message(r.c)
                                        THEN "recv" ELSE "outer"]
    /\ UNCHANGED << MonitorVars, panicked >>

\* match chan.recv(None): a message is handled, none is passed over.
MonRecv ==
    /\ mon.pc = "recv"
    /\ \E io \in IoChoices, rejectReserved \in NativeChoices(peerFrame) :
         LET r == recv(NoTimeout, mc, sock, io, rejectReserved)
         IN /\ mc' = r.c
            /\ sock' = r.s
            /\ panicked' = (r.ret.variant = PANIC)
            /\ mon' = [pc |-> IF r.ret.variant = PANIC THEN "panicked"
                              ELSE "inner",
                       handled |-> IF r.ret = None \/ r.ret.variant = PANIC
                                   THEN mon.handled ELSE mon.handled + 1]
    /\ UNCHANGED MonitorVars

MonStep ==
    \/ MonStart
    \/ MonOuter
    \/ MonPoll
    \/ MonInner
    \/ MonRecv

NextMonitor ==
    \/ MonStep
    \/ PeerSend
    \/ PeerClose

SpecMonitor == InitMonitor /\ [][NextMonitor]_vars

\* The monitor's thread keeps running.
SpecMonitorLive == SpecMonitor /\ WF_vars(MonStep)

\* C20: the inner loop of the monitor ends once the buffered messages are
\* consumed, and once the peer has closed and every buffered message is
\* received the main loop ends.
C20_MonitorLoopEnds ==
    /\ (mon.pc \in { "inner", "recv" })
          ~> (mon.pc \in { "outer", "poll", "done", "panicked" })
    /\ (mon.pc # "start" /\ eof(mc)) ~> (mon.pc \in { "done", "panicked" })

(***************************************************************************)
(* What the peer did, as the properties' reference.                        *)
(***************************************************************************)
RecvOps == { "recv", "recv_timeout" }
DecodeErrors == { "MalformedFrame", "UnknownMessageType", "MalformedPayload" }

\* The next frame the peer wrote has arrived whole in the channel's buffer.
FrameArrived ==
    /\ mc.taken < Len(sent)
    /\ mc.got >= sent[mc.taken + 1].end

\* A frame the peer wrote that decodes to a message.
WellFormed(f) ==
    \/ f.kind = "stats"
    \/ /\ peerFrame.shape = "bare"
       /\ peerFrame.code \in 1..Len(MsgTypes)
       /\ peerFrame.code # StatsCode
       /\ MsgTypes[peerFrame.code] \notin ReservedTypes

(***************************************************************************)
(* Properties of Spec.                                                     *)
(***************************************************************************)
\* C1: once eof() has returned true, every later eof() returns true and
\* every later recv returns none.
C1_EofMonotone ==
    /\ eofSeen => eof(mc)
    /\ lastOp.afterEof => lastOp.op # "panic"
    /\ lastOp.afterEof /\ lastOp.op \in RecvOps => lastOp.retm = None

C1_Witness ==
    /\ eofSeen
    /\ mc.taken > 0
    /\ lastOp.afterEof
    /\ lastOp.op = "recv"

\* C2: however the peer's bytes are split over reads, has_message() is true
\* exactly when the whole next frame has arrived, and no message is returned
\* whose frame has not arrived whole.
C2_PartialReads ==
    /\ mc.err = "none" => (has_message(mc) <=> FrameArrived)
    /\ lastOp.op \in RecvOps /\ lastOp.retm # None
           => mc.taken > 0 /\ mc.got >= sent[mc.taken].end

C2_Witness ==
    /\ lastOp.op = "read_a_bit"
    /\ ~lastOp.hadMsg
    /\ has_message(mc)
    /\ FrameArrived
    /\ mc.taken = 1

C5_SendFailureReported ==
    /\ lastOp.op = "send" /\ ~lastOp.wrote => mc.state = "Closed"
    /\ lastOp.op = "send" => (lastOp.ret = Unit <=> lastOp.wrote)

\* C6: a channel starts in Open(Normal); bulk_transfer() puts it in bulk
\* mode, a second call changes nothing, and no operation takes a channel in
\* bulk mode back to normal framing.
C6_BulkOneWay ==
    /\ mc.state = "Open" /\ mc.mode = "Normal"
    /\ [][/\ BulkTransfer => mc'.mode = "Bulk" /\ mc'.state = mc.state
          /\ BulkTransfer /\ mc.mode = "Bulk" => mc' = mc
          /\ mc.mode = "Bulk" => mc'.mode = "Bulk"]_vars

C6_Witness ==
    /\ mc.mode = "Bulk"
    /\ mc.state = "Open"
    /\ lastOp.op = "recv"
    /\ lastOp.retm # None

\* C9: a decode error leaves the channel closed and no later recv returns a
\* message; a read that would block is no error and leaves the channel open.
C9_DecodeErrorsClose ==
    /\ mc.err # "none" => mc.state = "Closed"
    /\ lastOp.afterErr /\ lastOp.op \in RecvOps => lastOp.retm = None
    /\ lastOp.afterErr => lastOp.op # "panic"
    /\ lastOp.wb /\ lastOp.op \in RecvOps \cup { "read_a_bit" }
           => mc.state = "Open" /\ mc.err = "none"

C9_Witness ==
    /\ mc.err = "MalformedPayload"
    /\ lastOp.afterErr
    /\ lastOp.op = "recv"

\* The frame of a length prefix beyond the maximum is at the head of what
\* the channel has read.
HugeAtHead ==
    \E k \in 1..Len(sent) :
        /\ sent[k].kind = "own"
        /\ peerFrame.shape = "huge"
        /\ mc.taken >= k - 1
        /\ mc.got >= sent[k].end

\* The channel has read the length prefix of a frame that decodes, the
\* frames before it decode too, and the rest of it has not arrived.
PartialAtHead ==
    /\ mc.taken < Len(sent)
    /\ \A k \in 1..(mc.taken + 1) : WellFormed(sent[k])
    /\ mc.got >= (IF mc.taken = 0 THEN 0 ELSE sent[mc.taken].end) + 4
    /\ mc.got < sent[mc.taken + 1].end

\* C10: a frame whose declared length is beyond the maximum fails with
\* MalformedFrame, and the channel never sets aside more than the maximum
\* for a frame; a frame that has arrived in part is no error: no message is
\* there yet.
C10_OversizeAndShort ==
    /\ mc.cap <= 4 + MaxMsgLen
    /\ HugeAtHead => mc.err = "MalformedFrame"
    /\ PartialAtHead => /\ mc.err \in { "none", "SocketError" }
                        /\ mc.err = "none" => ~has_message(mc)

C10_Witness ==
    /\ mc.err = "MalformedFrame"
    /\ HugeAtHead
    /\ mc.taken = 1
    /\ lastOp.op \in RecvOps

\* C16: eof() is true only when the peer has closed in an orderly way and no
\* complete frame is buffered; while has_message() is true after the peer's
\* close eof() is false, and recv still delivers the frame buffered then.
C16_EofAfterDrain ==
    /\ eof(mc) => sock.peerClosed /\ sock.wire = << >> /\ ~has_message(mc)
    /\ has_message(mc) => ~eof(mc)
    /\ lastOp.op \in RecvOps /\ lastOp.hadMsg /\ mc.peerEof
         => lastOp.retm # None \/ mc.err \in DecodeErrors

C16_Witness ==
    /\ mc.peerEof
    /\ lastOp.op = "recv"
    /\ lastOp.hadMsg
    /\ ~lastOp.wasOpen
    /\ lastOp.retm # None
    /\ has_message(mc)
    /\ ~eof(mc)


\* The message a well-formed frame of the peer decodes to.
StatsMessage ==
    [variant |-> "MonitorStats",
     msg |-> [type |-> "M_MON_STATS", host_id |-> 3, message |-> StrBusy]]

ExpectedMsg(f) == IF f.kind = "stats" THEN StatsMessage ELSE PingMessage

\* C21: in whatever order read_a_bit, has_message and recv are called while
\* data arrives, every message recv returns is the message of the next frame
\* the peer sent that was not delivered yet: the messages returned are a
\* prefix of the frames sent, in order, none twice and none skipped.
C21_InOrderOnce ==
    [][/\ mc'.taken \in { mc.taken, mc.taken + 1 }
       /\ mc'.taken = mc.taken + 1 =>
            /\ mc.taken < Len(sent)
            /\ mc'.got >= sent[mc'.taken].end
            /\ lastOp'.op \in RecvOps \cup { "panic" }
            /\ lastOp'.retm # None =>
                 /\ WellFormed(sent[mc'.taken])
                 /\ lastOp'.retm = ExpectedMsg(sent[mc'.taken])
            /\ lastOp'.retm = None => mc'.err \in DecodeErrors \/ panicked'
       /\ (mc' # mc \/ lastOp' # lastOp) /\ lastOp'.retm # None
            => lastOp'.op \in RecvOps /\ mc'.taken = mc.taken + 1]_vars

C21_Witness ==
    /\ lastOp.op = "recv"
    /\ lastOp.retm = StatsMessage
    /\ mc.taken = 2
    /\ sent[1].kind = "own"
    /\ WellFormed(sent[1])
    /\ mc.err = "none"


(***************************************************************************)
(* Properties of SpecDispatch.                                             *)
(***************************************************************************)
\* The variant from_raw_ptr builds for a message of a type.
KindOf(t) == Message_from_raw_ptr(NativeMsg(t, NoFields)).variant

\* The variants built for the types other than the reserved two.
Kinds == { KindOf(t) : t \in TypeSet \ ReservedTypes }

\* C7: from_raw_ptr takes the types other than the reserved two one-to-one
\* onto the variants of Message, and recv returns a frame that decodes as
\* the variant of the frame's tag, whatever was sent before: the frame
\* MonitorStats{3, "busy"} as Message::MonitorStats with host_id() = 3 and
\* message() = "busy".
C7_TagDispatch ==
    /\ Kinds = VariantSet
    /\ Cardinality(Kinds) = Cardinality(TypeSet \ ReservedTypes)
    /\ KindOf("M_PING") = "Ping" /\ KindOf("M_MON_STATS") = "MonitorStats"
    /\ lastOp.op = "recv" /\ lastOp.hadMsg /\ WellFormed(sent[mc.taken])
           => lastOp.retm # None
    /\ lastOp.op = "recv" /\ lastOp.retm # None
           => IF sent[mc.taken].kind = "stats"
              THEN /\ lastOp.retm.variant = "MonitorStats"
                   /\ host_id(lastOp.retm) = 3
                   /\ message(lastOp.retm) = StrBusy
              ELSE /\ lastOp.retm.msg.type = MsgTypes[peerFrame.code]
                   /\ lastOp.retm.variant = KindOf(MsgTypes[peerFrame.code])

C7_Witness ==
    /\ sock.out = 1
    /\ lastOp.op = "recv"
    /\ lastOp.retm.variant = "MonitorStats"
    /\ host_id(lastOp.retm) = 3
    /\ message(lastOp.retm) = StrBusy

\* C8: recv returns no Message for a frame of a reserved tag; taking such a
\* frame off the buffer ends in a decode error or in a panic.
C8_ReservedNeverSurface ==
    /\ lastOp.retm # None
           => /\ lastOp.retm.msg.type \notin ReservedTypes
              /\ lastOp.retm.variant \in VariantSet
    /\ mc.taken > 0 /\ sent[mc.taken].kind = "own" /\ IsReserved(peerFrame)
           => panicked \/ mc.err = "UnknownMessageType"

C8_Witness ==
    /\ panicked
    /\ lastOp.op = "panic"
    /\ IsReserved(peerFrame)
    /\ MsgTypes[peerFrame.code] = "M_TIMEOUT"
    /\ sent[mc.taken].kind = "own"

=============================================================================
